---- MODULE Spec2Model ----
(***************************************************************************)
(* Rainflow_visualizer: the rainflow counting core of src/lib/rainflow.ts. *)
(*                                                                         *)
(* One run of rainflowCount(raw, options) is modelled as a state machine:  *)
(* the call extracts the turning points, the for loop pushes one turning   *)
(* point per iteration, the while loop of tryCloseFourPoint closes cycles  *)
(* one at a time, and the residual policy is applied after the loop.       *)
(*                                                                         *)
(* Numbers.  Sample values are integers.  The code computes                *)
(* mean = 0.5 * (b.x + c.x) and count = 1.0 or 0.5; both are kept here in   *)
(* units of one half, in the fields mean2 (= 2 * mean = b.x + c.x) and      *)
(* count2 (= 2 * count: 2 for a closed cycle, 1 for a half cycle).  Both   *)
(* are exact in IEEE doubles for the magnitudes used here.                 *)
(*                                                                         *)
(* buildMatrix is modelled in exact arithmetic.  Every quantity of an axis  *)
(* is kept in halves (2 * range, mean2), and an edge list of B bins holds   *)
(* each edge times B, so that edges[k] = B * min + (max - min) * k stands   *)
(* for min + (max - min) * (k / B); findBin compares B * v with it.        *)
(* counts are indexed from 0 as in the source and hold count2.             *)
(*                                                                         *)
(* The playback of src/App.tsx (cursor, playing, the interval and the       *)
(* effects that follow a render) is a second state machine, SpecApp, in    *)
(* which every new analysis is a run of the first one.                     *)
(*                                                                         *)
(* Indices.  TurningPoint.i is the 0-based index of the source; sequences  *)
(* here are 1-based, so raw[p.i + 1] is the sample a point p refers to.    *)
(***************************************************************************)
EXTENDS Integers, Sequences, FiniteSets, TLC

\* ---------------------------------------------------------------- bounds
MaxLen == 5
MaxVal == 1
MaxCycles == 2
MaxBins == 2
MaxTyped == 2

\* The bin counts the application starts with.
DefaultBins == 12

Values == (0 - MaxVal)..MaxVal

SeqsUpTo(S, n) == UNION {[1..m -> S] : m \in 0..n}

\* Inputs beyond the enumerated ones: the specification's two worked
\* examples, the first seven samples of the demo signal, an input on which
\* one push closes two cycles and one on which two pushes close a cycle each.
ExampleClosing == <<-2, 1, -3, 5, -1>>
ExampleExtremum == <<-1, 2, -3, 5, -2>>
ExampleDouble == <<2, -2, 1, -1, 0, -2>>

ExampleRepeat == <<0, 2, 1, 2, 1, 2>>
ExampleDemo == <<-1, 2, -3, 5, -2, 4, -5>>
ExampleResidual == <<0, 10>>
ExampleMonotonic == <<0, 1, 1, 2, 3>>

ExampleInputs ==
  {ExampleClosing, ExampleExtremum, ExampleDouble, ExampleRepeat, ExampleDemo,
   ExampleResidual, ExampleMonotonic}

RawInputs == SeqsUpTo(Values, MaxLen) \cup ExampleInputs

ResidueHandling == {"discard", "half", "close"}

\* ---------------------------------------------------------------- helpers
Abs(v) == IF v < 0 THEN 0 - v ELSE v

sign(v) == IF v > 0 THEN 1 ELSE IF v < 0 THEN -1 ELSE 0

TurningPoint(i, x) == [i |-> i, x |-> x]

Cycle(range, mean2, count2, b, c) ==
  [range |-> range, mean2 |-> mean2, count2 |-> count2, b |-> b, c |-> c]

\* ------------------------------------------------- turning point extraction
RECURSIVE compressFromLast(_, _)
compressFromLast(x, j) ==
  IF j > Len(x) THEN <<>>
  ELSE (IF j = Len(x) \/ x[j] # x[j + 1] THEN <<TurningPoint(j - 1, x[j])>> ELSE <<>>)
       \o compressFromLast(x, j + 1)

RECURSIVE compressFromAll(_, _)
compressFromAll(x, j) ==
  IF j > Len(x) THEN <<>>
  ELSE <<TurningPoint(j - 1, x[j])>> \o compressFromAll(x, j + 1)

RECURSIVE compressFrom(_, _)
compressFrom(x, j) ==
  IF j > Len(x) THEN <<>>
  ELSE (IF j = 1 \/ x[j] # x[j - 1] THEN <<TurningPoint(j - 1, x[j])>> ELSE <<>>)
       \o compressFrom(x, j + 1)

compressDuplicates(x) == compressFrom(x, 1)

isReversalPeak(prev, cur, next) == cur.x - prev.x > 0 /\ next.x - cur.x < 0

isReversal(prev, cur, next) == sign(cur.x - prev.x) # sign(next.x - cur.x)

\* The loop over the interior compressed samples; k is the 1-based position.
RECURSIVE reversalLoopRev(_, _)
reversalLoopRev(compressed, k) ==
  IF k > Len(compressed) - 1 THEN <<>>
  ELSE reversalLoopRev(compressed, k + 1)
       \o (IF isReversal(compressed[k - 1], compressed[k], compressed[k + 1])
           THEN <<compressed[k]>> ELSE <<>>)

RECURSIVE reversalLoop(_, _)
reversalLoop(compressed, k) ==
  IF k > Len(compressed) - 1 THEN <<>>
  ELSE (IF isReversal(compressed[k - 1], compressed[k], compressed[k + 1])
        THEN <<compressed[k]>> ELSE <<>>)
       \o reversalLoop(compressed, k + 1)

pushFirstNever(useEndpoints, first) == <<>>

pushFirst(useEndpoints, first) == IF useEndpoints THEN <<first>> ELSE <<>>

pushLast(tp, last) ==
  IF Len(tp) = 0 \/ tp[Len(tp)].i # last.i THEN Append(tp, last) ELSE tp

midIndexLow(compressed) == ((Len(compressed) - 1) \div 2) + 1

\* Math.floor(compressed.length / 2) is a 0-based position.
midIndex(compressed) == (Len(compressed) \div 2) + 1

fallbackMidNone(tp, compressed) == tp

fallbackMid(tp, compressed) ==
  IF Len(tp) = 0 THEN <<compressed[midIndex(compressed)]>> ELSE tp

extractTurningPoints(x, useEndpoints) ==
  IF Len(x) < 2 THEN [j \in 1..Len(x) |-> TurningPoint(j - 1, x[j])]
  ELSE LET compressed == compressDuplicates(x) IN
       IF Len(compressed) = 1 THEN <<compressed[1]>>
       ELSE LET first == compressed[1]
                last == compressed[Len(compressed)]
                tp == pushFirst(useEndpoints, first) \o reversalLoop(compressed, 2)
            IN IF useEndpoints THEN pushLast(tp, last)
               ELSE fallbackMid(tp, compressed)

\* ------------------------------------------------------- four-point method
closeConditionStrict(A, B, C, D) ==
  /\ Abs(B.x - C.x) < Abs(A.x - B.x)
  /\ Abs(B.x - C.x) < Abs(C.x - D.x)

closeCondition(A, B, C, D) ==
  /\ Abs(B.x - C.x) <= Abs(A.x - B.x)
  /\ Abs(B.x - C.x) <= Abs(C.x - D.x)

closedCycleHalf(B, C) == Cycle(Abs(B.x - C.x), B.x + C.x, 1, B, C)

closedCycleBB(B, C) == Cycle(Abs(B.x - C.x), B.x + C.x, 2, B, B)

closedCycle(B, C) == Cycle(Abs(B.x - C.x), B.x + C.x, 2, B, C)

keptDropC(st) == SubSeq(st, 1, Len(st) - 2) \o <<st[Len(st)]>>

keptAB(st) == SubSeq(st, 1, Len(st) - 2)

keptCD(st) == SubSeq(st, 1, Len(st) - 4) \o <<st[Len(st) - 1], st[Len(st)]>>

kept(st) == SubSeq(st, 1, Len(st) - 4) \o <<st[Len(st) - 3], st[Len(st)]>>

windowOfBottom(st) == <<st[1], st[2], st[3], st[4]>>

windowOfReversed(st) == <<st[Len(st)], st[Len(st) - 1], st[Len(st) - 2], st[Len(st) - 3]>>

windowOf(st) == <<st[Len(st) - 3], st[Len(st) - 2], st[Len(st) - 1], st[Len(st)]>>

\* ------------------------------------------------------------- residual
RECURSIVE halfCyclesShort(_, _)
halfCyclesShort(st, j) ==
  IF j > Len(st) - 2 THEN <<>>
  ELSE <<Cycle(Abs(st[j].x - st[j + 1].x), st[j].x + st[j + 1].x, 1, st[j], st[j + 1])>>
       \o halfCyclesShort(st, j + 1)

RECURSIVE halfCyclesFull(_, _)
halfCyclesFull(st, j) ==
  IF j > Len(st) - 1 THEN <<>>
  ELSE <<Cycle(Abs(st[j].x - st[j + 1].x), st[j].x + st[j + 1].x, 2, st[j], st[j + 1])>>
       \o halfCyclesFull(st, j + 1)

RECURSIVE halfCycles(_, _)
halfCycles(st, j) ==
  IF j > Len(st) - 1 THEN <<>>
  ELSE <<Cycle(Abs(st[j].x - st[j + 1].x), st[j].x + st[j + 1].x, 1, st[j], st[j + 1])>>
       \o halfCycles(st, j + 1)

residualCyclesWrapAlways(st, mode) ==
  IF mode = "discard" THEN <<>>
  ELSE halfCycles(st, 1)
       \o (IF mode = "close" /\ Len(st) >= 1
           THEN <<Cycle(Abs(st[Len(st)].x - st[1].x), st[Len(st)].x + st[1].x, 1,
                        st[Len(st)], st[1])>>
           ELSE <<>>)

residualCycles(st, mode) ==
  IF mode = "discard" THEN <<>>
  ELSE halfCycles(st, 1)
       \o (IF mode = "close" /\ Len(st) >= 2
           THEN <<Cycle(Abs(st[Len(st)].x - st[1].x), st[Len(st)].x + st[1].x, 1,
                        st[Len(st)], st[1])>>
           ELSE <<>>)

\* --------------------------------------------------------------- matrix
\* Inputs of buildMatrix: cycle lists over the cycles that pairs of sample
\* values form.  buildMatrix reads only range, mean and count, which are the
\* same for the pair (b, c) and the pair (c, b), so b.x <= c.x here.
ValuePairs == {p \in Values \X Values : p[1] <= p[2]}

CycleAlphabet ==
  {Cycle(Abs(p[1] - p[2]), p[1] + p[2], n, TurningPoint(0, p[1]), TurningPoint(1, p[2])) :
     p \in ValuePairs, n \in {1, 2}}

ExampleThreeCycles ==
  <<Cycle(0, 0, 2, TurningPoint(0, 0), TurningPoint(1, 0)),
    Cycle(1, 1, 2, TurningPoint(2, 0), TurningPoint(3, 1)),
    Cycle(2, 0, 1, TurningPoint(4, -1), TurningPoint(5, 1))>>

CycleInputs == SeqsUpTo(CycleAlphabet, MaxCycles)

ExampleCycleInputs == {<<>>, ExampleThreeCycles}

ExampleBins == {2, 4}

minOfFirst(vals) == vals[1]

RECURSIVE minOf(_)
minOf(vals) ==
  IF Len(vals) = 1 THEN vals[1]
  ELSE LET m == minOf(Tail(vals)) IN IF vals[1] < m THEN vals[1] ELSE m

RECURSIVE maxOf(_)
maxOf(vals) ==
  IF Len(vals) = 1 THEN vals[1]
  ELSE LET m == maxOf(Tail(vals)) IN IF vals[1] > m THEN vals[1] ELSE m

linspaceOpen(min, max, bins) ==
  IF bins <= 0 THEN <<>>
  ELSE [j \in 1..bins |-> min * bins + (max - min) * (j - 1)]

linspace(min, max, bins) ==
  IF bins <= 0 THEN <<>>
  ELSE [j \in 1..(bins + 1) |-> min * bins + (max - min) * (j - 1)]

findBinUpper(edges, v) ==
  IF Len(edges) < 2 THEN -1
  ELSE LET bins == Len(edges) - 1
           sv == v * bins
           hits == {i \in 0..(bins - 1) : sv > edges[i + 1] /\ sv <= edges[i + 2]}
       IN IF sv <= edges[1] THEN 0
          ELSE IF sv >= edges[bins + 1] THEN bins - 1
          ELSE IF hits = {} THEN bins - 1
          ELSE CHOOSE i \in hits : \A h \in hits : i <= h

findBin(edges, v) ==
  IF Len(edges) < 2 THEN -1
  ELSE LET bins == Len(edges) - 1
           sv == v * bins
           hits == {i \in 0..(bins - 1) : sv >= edges[i + 1] /\ sv < edges[i + 2]}
       IN IF sv <= edges[1] THEN 0
          ELSE IF sv >= edges[bins + 1] THEN bins - 1
          ELSE IF hits = {} THEN bins - 1
          ELSE CHOOSE i \in hits : \A h \in hits : i <= h

\* max === min ? min + 1 : max, in halves.
widenNever(min, max) == max

widen(min, max) == IF max = min THEN min + 2 ELSE max

RECURSIVE addCyclesOverwrite(_, _, _, _)
addCyclesOverwrite(counts, rangeEdges, meanEdges, cs) ==
  IF cs = <<>> THEN counts
  ELSE LET c == cs[1]
           ri == findBin(rangeEdges, 2 * c.range)
           mi == findBin(meanEdges, c.mean2)
           next == IF ri >= 0 /\ mi >= 0
                   THEN [counts EXCEPT ![ri][mi] = c.count2]
                   ELSE counts
       IN addCyclesOverwrite(next, rangeEdges, meanEdges, Tail(cs))

RECURSIVE addCycles(_, _, _, _)
addCycles(counts, rangeEdges, meanEdges, cs) ==
  IF cs = <<>> THEN counts
  ELSE LET c == cs[1]
           ri == findBin(rangeEdges, 2 * c.range)
           mi == findBin(meanEdges, c.mean2)
           next == IF ri >= 0 /\ mi >= 0
                   THEN [counts EXCEPT ![ri][mi] = @ + c.count2]
                   ELSE counts
       IN addCycles(next, rangeEdges, meanEdges, Tail(cs))

buildMatrix(cs, bRange, bMean) ==
  LET ranges == [j \in DOMAIN cs |-> 2 * cs[j].range]
      means == [j \in DOMAIN cs |-> cs[j].mean2]
      rMin == IF Len(ranges) # 0 THEN minOf(ranges) ELSE 0
      rMax == IF Len(ranges) # 0 THEN maxOf(ranges) ELSE 2
      mMin == IF Len(means) # 0 THEN minOf(means) ELSE 0
      mMax == IF Len(means) # 0 THEN maxOf(means) ELSE 2
      rangeEdges == linspace(rMin, widen(rMin, rMax), bRange)
      meanEdges == linspace(mMin, widen(mMin, mMax), bMean)
      zero == [i \in 0..(bRange - 1) |-> [j \in 0..(bMean - 1) |-> 0]]
  IN [rangeEdges |-> rangeEdges, meanEdges |-> meanEdges,
      counts |-> addCycles(zero, rangeEdges, meanEdges, cs)]

NoMatrix == [rangeEdges |-> <<>>, meanEdges |-> <<>>, counts |-> <<>>]

\* ------------------------------------------------------------------ state
VARIABLES raw, useEndpointsAsReversals, residue,
          pc, turningPoints, k, stack, events, cycles, residualStack,
          appended, before, s, closed,
          binsRange, binsMean, matrix,
          cursor, playing, timer, inputsChanged

vars == <<raw, useEndpointsAsReversals, residue,
          pc, turningPoints, k, stack, events, cycles, residualStack,
          appended, before, s, closed,
          binsRange, binsMean, matrix,
          cursor, playing, timer, inputsChanged>>

matrixVars == <<binsRange, binsMean, matrix>>

\* The playback state of the application and its bookkeeping of effects.
playbackVars == <<cursor, playing, timer, inputsChanged>>

\* No interval is running.
NoTimer == -1

NoPlayback ==
  /\ cursor = 0
  /\ playing = FALSE
  /\ timer = NoTimer
  /\ inputsChanged = FALSE

inputs == <<raw, useEndpointsAsReversals, residue>>

NoPoint == TurningPoint(-1, 0)

Init ==
  /\ raw \in RawInputs
  /\ useEndpointsAsReversals \in BOOLEAN
  /\ residue \in ResidueHandling
  /\ pc = "call"
  /\ turningPoints = <<>>
  /\ k = 0
  /\ stack = <<>>
  /\ events = <<>>
  /\ cycles = <<>>
  /\ residualStack = <<>>
  /\ appended = NoPoint
  /\ before = <<>>
  /\ s = <<>>
  /\ closed = <<>>
  /\ binsRange = DefaultBins
  /\ binsMean = DefaultBins
  /\ matrix = NoMatrix
  /\ NoPlayback

\* rainflowCount, up to the for loop.
Extract ==
  /\ pc = "call"
  /\ turningPoints' = extractTurningPoints(raw, useEndpointsAsReversals)
  /\ events' = <<>>
  /\ cycles' = <<>>
  /\ stack' = <<>>
  /\ k' = 0
  /\ pc' = "for"
  /\ UNCHANGED <<inputs, residualStack, appended, before, s, closed, matrixVars, playbackVars>>

PushSnapshotLate ==
  /\ pc = "for"
  /\ k < Len(turningPoints)
  /\ appended' = turningPoints[k + 1]
  /\ before' = stack \o <<turningPoints[k + 1]>>
  /\ stack' = stack \o <<turningPoints[k + 1]>>
  /\ s' = stack \o <<turningPoints[k + 1]>>
  /\ closed' = <<>>
  /\ pc' = "while"
  /\ UNCHANGED <<inputs, turningPoints, k, events, cycles, residualStack, matrixVars, playbackVars>>

\* One iteration of the for loop up to the while loop of tryCloseFourPoint.
Push ==
  /\ pc = "for"
  /\ k < Len(turningPoints)
  /\ appended' = turningPoints[k + 1]
  /\ before' = stack
  /\ stack' = stack \o <<turningPoints[k + 1]>>
  /\ s' = stack \o <<turningPoints[k + 1]>>
  /\ closed' = <<>>
  /\ pc' = "while"
  /\ UNCHANGED <<inputs, turningPoints, k, events, cycles, residualStack, matrixVars, playbackVars>>

\* One iteration of the while loop that closes a cycle.
CloseCycle ==
  /\ pc = "while"
  /\ Len(s) >= 4
  /\ closeCondition(s[Len(s) - 3], s[Len(s) - 2], s[Len(s) - 1], s[Len(s)])
  /\ closed' = Append(closed, closedCycle(s[Len(s) - 2], s[Len(s) - 1]))
  /\ s' = kept(s)
  /\ UNCHANGED <<inputs, pc, turningPoints, k, stack, events, cycles,
                 residualStack, appended, before, matrixVars, playbackVars>>

StepEventOneBased(window) ==
  [k |-> k + 1, appended |-> appended, stackBefore |-> before, stackAfter |-> s,
   closed |-> closed, windowABCD |-> window]

StepEvent(window) ==
  [k |-> k, appended |-> appended, stackBefore |-> before, stackAfter |-> s,
   closed |-> closed, windowABCD |-> window]

pushAllFront(list, items) == items \o list

pushAll(list, items) == list \o items

\* The rest of the for-loop body once tryCloseFourPoint has returned.
EndStep(window) ==
  /\ stack' = s
  /\ events' = Append(events, StepEvent(window))
  /\ cycles' = pushAll(cycles, closed)
  /\ k' = k + 1
  /\ pc' = "for"
  /\ UNCHANGED <<inputs, turningPoints, residualStack, appended, before, s, closed,
                 matrixVars, playbackVars>>

ReturnWindowEarly ==
  /\ pc = "while"
  /\ Len(s) >= 4
  /\ \/ closed # <<>>
     \/ ~closeCondition(s[Len(s) - 3], s[Len(s) - 2], s[Len(s) - 1], s[Len(s)])
  /\ EndStep(windowOf(s))

\* The while loop returns at a quadruple that fails the condition.
ReturnWindow ==
  /\ pc = "while"
  /\ Len(s) >= 4
  /\ ~closeCondition(s[Len(s) - 3], s[Len(s) - 2], s[Len(s) - 1], s[Len(s)])
  /\ EndStep(windowOf(s))

\* The while loop ends with fewer than four points: no window is returned.
ReturnShort ==
  /\ pc = "while"
  /\ Len(s) < 4
  /\ EndStep(<<>>)

FinishDiscardStack ==
  /\ pc = "for"
  /\ k >= Len(turningPoints)
  /\ cycles' = pushAll(cycles, residualCycles(stack, residue))
  /\ residualStack' = IF residue = "discard" THEN <<>> ELSE stack
  /\ pc' = "done"
  /\ UNCHANGED <<inputs, turningPoints, k, stack, events, appended, before, s, closed,
                 matrixVars, playbackVars>>

\* After the for loop: the residual policy and the result.
Finish ==
  /\ pc = "for"
  /\ k >= Len(turningPoints)
  /\ cycles' = pushAll(cycles, residualCycles(stack, residue))
  /\ residualStack' = stack
  /\ pc' = "done"
  /\ UNCHANGED <<inputs, turningPoints, k, stack, events, appended, before, s, closed,
                 matrixVars, playbackVars>>

Next ==
  \/ Extract
  \/ Push
  \/ CloseCycle
  \/ ReturnWindow
  \/ ReturnShort
  \/ Finish

Spec == Init /\ [][Next]_vars

\* ---------------------------------------------- rainflowCount as a function
\* The result of a whole call, for callers that use it as a value.
Options(useEndpoints, mode, bRange, bMean) ==
  [useEndpointsAsReversals |-> useEndpoints, residue |-> mode,
   binsRange |-> bRange, binsMean |-> bMean]

\* The while loop of tryCloseFourPoint, from the stack st with the cycles
\* closed so far in acc.
RECURSIVE tryCloseLoop(_, _)
tryCloseLoop(st, acc) ==
  IF Len(st) >= 4
  THEN LET A == st[Len(st) - 3]
           B == st[Len(st) - 2]
           C == st[Len(st) - 1]
           D == st[Len(st)]
       IN IF closeCondition(A, B, C, D)
          THEN tryCloseLoop(kept(st), Append(acc, closedCycle(B, C)))
          ELSE [closed |-> acc, stack |-> st, window |-> windowOf(st)]
  ELSE [closed |-> acc, stack |-> st, window |-> <<>>]

tryCloseFourPoint(st) == tryCloseLoop(st, <<>>)

\* The state of the for loop of rainflowCount after its first n iterations.
RECURSIVE forLoop(_, _)
forLoop(tp, n) ==
  IF n = 0 THEN [stack |-> <<>>, events |-> <<>>, cycles |-> <<>>]
  ELSE LET prev == forLoop(tp, n - 1)
           result == tryCloseFourPoint(prev.stack \o <<tp[n]>>)
           ev == [k |-> n - 1, appended |-> tp[n], stackBefore |-> prev.stack,
                  stackAfter |-> result.stack, closed |-> result.closed,
                  windowABCD |-> result.window]
       IN [stack |-> result.stack,
           events |-> Append(prev.events, ev),
           cycles |-> pushAll(prev.cycles, result.closed)]

rainflowCount(x, options) ==
  LET tp == extractTurningPoints(x, options.useEndpointsAsReversals)
      loop == forLoop(tp, Len(tp))
  IN [turningPoints |-> tp,
      events |-> loop.events,
      cycles |-> pushAll(loop.cycles, residualCycles(loop.stack, options.residue)),
      residualStack |-> loop.stack]

\* buildMatrix(cycles, binsRange, binsMean) on its own: a cycle list and two
\* bin counts of at least 1, as its contract requires.
InitMatrix ==
  /\ \/ /\ cycles \in CycleInputs
        /\ binsRange \in 1..MaxBins
        /\ binsMean \in 1..MaxBins
     \/ /\ cycles \in ExampleCycleInputs
        /\ binsRange \in ExampleBins
        /\ binsMean \in ExampleBins
  /\ pc = "matrix"
  /\ matrix = NoMatrix
  /\ raw = <<>>
  /\ useEndpointsAsReversals = TRUE
  /\ residue = "half"
  /\ turningPoints = <<>>
  /\ k = 0
  /\ stack = <<>>
  /\ events = <<>>
  /\ residualStack = <<>>
  /\ appended = NoPoint
  /\ before = <<>>
  /\ s = <<>>
  /\ closed = <<>>
  /\ NoPlayback

BuildMatrix ==
  /\ pc = "matrix"
  /\ matrix' = buildMatrix(cycles, binsRange, binsMean)
  /\ pc' = "matrixDone"
  /\ UNCHANGED <<inputs, turningPoints, k, stack, events, cycles, residualStack,
                 appended, before, s, closed, binsRange, binsMean, playbackVars>>

NextMatrix == BuildMatrix

SpecMatrix == InitMatrix /\ [][NextMatrix]_vars

\* --------------------------------------------------- the playback of App
\* The application keeps raw and the options as state, derives computed =
\* rainflowCount(raw, options) from them and plays the step events back with
\* a cursor.  A render that follows a changed input or option calls
\* rainflowCount again: the call is the state machine above, started afresh
\* (pc = "call") and finished at pc = "done", its result being computed.  A
\* render is committed (pc = "done" after a call, pc = "commit" otherwise)
\* before its effects run; the effects and the state updates they queue are
\* applied before any other event is handled (RunEffects).  The matrix memo
\* has no part in the playback and is left to SpecMatrix.
demoRaw ==
  <<-1, 2, -3, 5, -2, 4, -5, 6, -2, 3, -4, 5, -1, 2, -3, 4, -6, 5, -2, 3,
    -1, 4, -5, 6, -3, 4, -2, 5, -4, 3, -1, 2, -3, 4, -2, 3>>

\* What the user can type into the raw text area, after parsing: short
\* lists over zero and the two extreme values, and three longer ones.
TypedValues == {0 - MaxVal, 0, MaxVal}

TypedInputs ==
  SeqsUpTo(TypedValues, MaxTyped) \cup {ExampleResidual, ExampleRepeat, demoRaw}

\* What the user can type into a bins field.
TypedBins == {3}

\* Math.max(4, Math.min(80, v)).
clampBins(v) ==
  LET low == IF 80 < v THEN 80 ELSE v IN IF 4 > low THEN 4 ELSE low

\* Math.max(0, computed.events.length - 1).
maxCursor == IF 0 > Len(events) - 1 THEN 0 ELSE Len(events) - 1

\* The loop of cyclesUpToCursor from step j (0-based) on.
RECURSIVE closedUpTo(_, _, _)
closedUpTo(evs, j, cur) ==
  IF j <= cur /\ j < Len(evs) THEN evs[j + 1].closed \o closedUpTo(evs, j + 1, cur)
  ELSE <<>>

cyclesUpToCursorNoResidual(evs, cs, cur, maxCur) ==
  IF Len(evs) = 0 THEN <<>> ELSE closedUpTo(evs, 0, cur)

cyclesUpToCursorOf(evs, cs, cur, maxCur) ==
  IF Len(evs) = 0 THEN <<>>
  ELSE LET out == closedUpTo(evs, 0, cur)
           already == Len(out)
       IN IF cur >= maxCur /\ Len(cs) > already
          THEN out \o SubSeq(cs, already + 1, Len(cs))
          ELSE out

cyclesUpToCursor == cyclesUpToCursorOf(events, cycles, cursor, maxCursor)

computedVars == <<turningPoints, events, cycles, residualStack>>

loopVars == <<k, stack, appended, before, s, closed>>

\* A render whose effects have not run yet.
Committed == pc \in {"commit", "done"}

InitApp ==
  /\ raw = demoRaw
  /\ useEndpointsAsReversals = TRUE
  /\ residue = "half"
  /\ binsRange = DefaultBins
  /\ binsMean = DefaultBins
  /\ matrix = NoMatrix
  /\ cursor = 0
  /\ playing = FALSE
  /\ timer = NoTimer
  /\ inputsChanged = TRUE
  /\ pc = "call"
  /\ turningPoints = <<>>
  /\ k = 0
  /\ stack = <<>>
  /\ events = <<>>
  /\ cycles = <<>>
  /\ residualStack = <<>>
  /\ appended = NoPoint
  /\ before = <<>>
  /\ s = <<>>
  /\ closed = <<>>

\* setCursor from a button or the interval; a state equal to the old one
\* causes no render.
SetCursor(c) ==
  /\ cursor' = c
  /\ pc' = IF c = cursor THEN "idle" ELSE "commit"
  /\ UNCHANGED <<inputs, matrixVars, computedVars, loopVars,
                 playing, timer, inputsChanged>>

Back ==
  /\ pc = "idle"
  /\ ~(cursor <= 0)
  /\ SetCursor(IF 0 > cursor - 1 THEN 0 ELSE cursor - 1)

Step ==
  /\ pc = "idle"
  /\ ~(cursor >= maxCursor)
  /\ SetCursor(IF maxCursor < cursor + 1 THEN maxCursor ELSE cursor + 1)

PlayPause ==
  /\ pc = "idle"
  /\ ~(Len(events) = 0)
  /\ playing' = ~playing
  /\ pc' = "commit"
  /\ UNCHANGED <<inputs, matrixVars, computedVars, loopVars,
                 cursor, timer, inputsChanged>>

Reset ==
  /\ pc = "idle"
  /\ playing' = FALSE
  /\ cursor' = 0
  /\ pc' = IF playing \/ cursor # 0 THEN "commit" ELSE "idle"
  /\ UNCHANGED <<inputs, matrixVars, computedVars, loopVars, timer, inputsChanged>>

TickUnclamped ==
  /\ pc = "idle"
  /\ timer # NoTimer
  /\ SetCursor(cursor + 1)

\* The interval callback, with the maxCursor captured when it was set up.
Tick ==
  /\ pc = "idle"
  /\ timer # NoTimer
  /\ SetCursor(IF cursor >= timer THEN timer ELSE cursor + 1)

\* The render after a changed input or option calls rainflowCount afresh;
\* the reset effect has a changed dependency.
StartAnalysis ==
  /\ pc' = "call"
  /\ inputsChanged' = TRUE
  /\ turningPoints' = <<>>
  /\ k' = 0
  /\ stack' = <<>>
  /\ events' = <<>>
  /\ cycles' = <<>>
  /\ residualStack' = <<>>
  /\ appended' = NoPoint
  /\ before' = <<>>
  /\ s' = <<>>
  /\ closed' = <<>>
  /\ UNCHANGED <<matrix, cursor, playing, timer>>

ChangeRaw(nums) ==
  /\ pc = "idle"
  /\ Len(nums) >= 2
  /\ raw' = nums
  /\ StartAnalysis
  /\ UNCHANGED <<useEndpointsAsReversals, residue, binsRange, binsMean>>

ChangeResidue(mode) ==
  /\ pc = "idle"
  /\ mode # residue
  /\ residue' = mode
  /\ StartAnalysis
  /\ UNCHANGED <<raw, useEndpointsAsReversals, binsRange, binsMean>>

ChangeEndpoints(on) ==
  /\ pc = "idle"
  /\ on # useEndpointsAsReversals
  /\ useEndpointsAsReversals' = on
  /\ StartAnalysis
  /\ UNCHANGED <<raw, residue, binsRange, binsMean>>

ChangeBinsRange(v) ==
  /\ pc = "idle"
  /\ clampBins(v) # binsRange
  /\ binsRange' = clampBins(v)
  /\ StartAnalysis
  /\ UNCHANGED <<inputs, binsMean>>

ChangeBinsMean(v) ==
  /\ pc = "idle"
  /\ clampBins(v) # binsMean
  /\ binsMean' = clampBins(v)
  /\ StartAnalysis
  /\ UNCHANGED <<inputs, binsRange>>

\* The effects of a committed render: the reset effect when an input or
\* option changed (and after the first render), then the interval effect,
\* which runs again whenever playing or maxCursor changes and so leaves an
\* interval exactly when playing, with the maxCursor of the render.
RunEffects ==
  /\ Committed
  /\ playing' = IF inputsChanged THEN FALSE ELSE playing
  /\ cursor' = IF inputsChanged THEN 0 ELSE cursor
  /\ timer' = IF playing' THEN maxCursor ELSE NoTimer
  /\ inputsChanged' = FALSE
  /\ pc' = "idle"
  /\ UNCHANGED <<inputs, matrixVars, computedVars, loopVars>>

NextApp ==
  \/ Extract
  \/ Push
  \/ CloseCycle
  \/ ReturnWindow
  \/ ReturnShort
  \/ Finish
  \/ RunEffects
  \/ Back
  \/ Step
  \/ PlayPause
  \/ Reset
  \/ Tick
  \/ \E nums \in TypedInputs : ChangeRaw(nums)
  \/ \E mode \in ResidueHandling : ChangeResidue(mode)
  \/ \E on \in BOOLEAN : ChangeEndpoints(on)
  \/ \E v \in TypedBins : ChangeBinsRange(v)
  \/ \E v \in TypedBins : ChangeBinsMean(v)

SpecApp == InitApp /\ [][NextApp]_vars

TypeOK ==
  /\ pc \in {"call", "for", "while", "done"}
  /\ k \in 0..Len(turningPoints)
  /\ Len(events) = k

\* ------------------------------------------------------ claim vocabulary
\* The closed lists of a sequence of step events, concatenated in step order.
RECURSIVE ConcatClosed(_)
ConcatClosed(evs) ==
  IF evs = <<>> THEN <<>> ELSE evs[1].closed \o ConcatClosed(Tail(evs))

\* Twice the sum of count over a cycle list.
RECURSIVE SumCount2(_)
SumCount2(cs) == IF cs = <<>> THEN 0 ELSE cs[1].count2 + SumCount2(Tail(cs))

Range(f) == {f[j] : j \in DOMAIN f}

ValuesOf(points) == [j \in DOMAIN points |-> points[j].x]

Extracted == pc # "call"

\* C1: while the stack holds at least 4 points, the top four A,B,C,D close
\* a cycle exactly when |B-C| <= |A-B| and |B-C| <= |C-D| (ties close); the
\* closed cycle has range |B-C|, mean (B+C)/2, count 1.0, b = B and c = C;
\* the loop stops at the first quadruple that fails.  Pushing -2,1,-3,5,-1
\* closes nothing and leaves the stack [-2,1,-3,5,-1].
C1_Iteration ==
  (pc = "while" /\ Len(s) >= 4) =>
    LET A == s[Len(s) - 3]
        B == s[Len(s) - 2]
        C == s[Len(s) - 1]
        D == s[Len(s)]
        rBC == Abs(B.x - C.x)
        rAB == Abs(A.x - B.x)
        rCD == Abs(C.x - D.x)
    IN IF rBC <= rAB /\ rBC <= rCD
       THEN /\ pc' = "while"
            /\ closed' = Append(closed, [range |-> rBC, mean2 |-> B.x + C.x,
                                         count2 |-> 2, b |-> B, c |-> C])
       ELSE /\ pc' = "for"
            /\ closed' = closed
            /\ stack' = s
            /\ events'[Len(events')].closed = closed

C1_Example ==
  (pc = "done" /\ ValuesOf(turningPoints) = ExampleClosing) =>
    /\ ValuesOf(residualStack) = ExampleClosing
    /\ \A j \in DOMAIN events : events[j].closed = <<>>
    /\ ConcatClosed(events) = <<>>

C1_FourPointRule == [][C1_Iteration]_vars /\ []C1_Example

\* A cycle has just closed on an exact tie.
C1_Witness ==
  /\ pc = "while"
  /\ closed # <<>>
  /\ Len(s) >= 2
  /\ LET cy == closed[Len(closed)]
         A == s[Len(s) - 1]
         D == s[Len(s)]
     IN \/ cy.range = Abs(A.x - cy.b.x)
        \/ cy.range = Abs(cy.c.x - D.x)

\* C2: the returned cycles are the concatenation of events[*].closed in
\* step order followed by the residual cycles of the final stack under the
\* residue mode, same elements in the same order.
C2_BatchIncremental ==
  /\ pc = "for" => cycles = ConcatClosed(events)
  /\ pc = "done" =>
       cycles = ConcatClosed(events) \o residualCycles(residualStack, residue)

C2_Witness ==
  /\ pc = "done"
  /\ residue = "close"
  /\ Len(residualStack) >= 2
  /\ \E i, j \in DOMAIN events : i < j /\ events[i].closed # <<>> /\ events[j].closed # <<>>

\* C3: the stack snapshots form one chain: the first stackBefore is empty,
\* each stackAfter is the next stackBefore, and residualStack is the last
\* stackAfter (empty when there are no turning points).
C3_StackContinuity ==
  /\ events # <<>> => events[1].stackBefore = <<>>
  /\ \A j \in 1..(Len(events) - 1) : events[j].stackAfter = events[j + 1].stackBefore
  /\ pc = "done" =>
       residualStack = IF events = <<>> THEN <<>> ELSE events[Len(events)].stackAfter

C3_Witness ==
  /\ pc = "done"
  /\ Len(events) >= 5
  /\ \E j \in 1..(Len(events) - 1) : events[j].closed # <<>>

\* C4: each closure removes exactly B and C and leaves A and D adjacent, so
\* stackAfter is stackBefore plus the appended point with exactly the b and
\* c points of the step's closed cycles removed, order preserved.
C4_Closure ==
  (pc = "while" /\ closed' # closed) =>
    LET n == Len(s) IN
      /\ Len(s') = n - 2
      /\ SubSeq(s', 1, n - 4) = SubSeq(s, 1, n - 4)
      /\ s'[n - 3] = s[n - 3]
      /\ s'[n - 2] = s[n]
      /\ closed'[Len(closed')].b = s[n - 2]
      /\ closed'[Len(closed')].c = s[n - 1]

RemovedPoints(e) == {cy.b : cy \in Range(e.closed)} \cup {cy.c : cy \in Range(e.closed)}

C4_Event ==
  \A j \in DOMAIN events :
    LET e == events[j]
        pushed == e.stackBefore \o <<e.appended>>
        Stays(p) == p \notin RemovedPoints(e)
    IN /\ e.stackAfter = SelectSeq(pushed, Stays)
       /\ RemovedPoints(e) \subseteq Range(pushed)
       /\ Cardinality(RemovedPoints(e)) = 2 * Len(e.closed)

C4_SpliceBC == [][C4_Closure]_vars /\ []C4_Event

C4_Witness ==
  \E j \in DOMAIN events :
    /\ Len(events[j].closed) = 2
    /\ Len(events[j].stackAfter) = 2
    /\ Len(events[j].stackBefore) = 5

\* C5 (as stated): the sum of count over all returned cycles equals the
\* number of turning points consumed.
C5_SumEqualsTurningPoints ==
  pc = "done" => SumCount2(cycles) = 2 * Len(turningPoints)

\* C5 (amended): twice the sum of count equals turningPoints.length minus
\* the residual stack length plus the number of residual cycles: that is
\* length - |residualStack| under "discard", length - 1 under "half" with a
\* non-empty stack, and length under "close" with at least 2 residual points
\* (length - 1 with exactly one), so the sum of count is at most half the
\* number of turning points.
C5_CountConservation ==
  pc = "done" =>
    LET n == Len(residualStack)
        T == Len(turningPoints)
        S2 == SumCount2(cycles)
    IN /\ residue = "discard" => S2 = T - n
       /\ residue = "half" => S2 = IF n = 0 THEN 0 ELSE T - 1
       /\ residue = "close" => S2 = IF n >= 2 THEN T ELSE T - n

C5_Witness ==
  /\ pc = "done"
  /\ residue = "half"
  /\ Len(residualStack) >= 3
  /\ \E j \in DOMAIN cycles : cycles[j].count2 = 2

\* C6: exactly one push and one step event per turning point, in order:
\* events.length = turningPoints.length, events[k].k = k and
\* events[k].appended = turningPoints[k].
C6_Push ==
  (s' # s /\ Len(s') >= Len(s)) =>
    /\ pc = "for"
    /\ pc' = "while"
    /\ s' = stack \o <<turningPoints[Len(events) + 1]>>

C6_Events ==
  /\ \A j \in DOMAIN events :
       /\ events[j].k = j - 1
       /\ events[j].appended = turningPoints[j]
  /\ Len(events) <= Len(turningPoints)
  /\ pc = "done" => Len(events) = Len(turningPoints)

C6_OneEventPerPoint == [][C6_Push]_vars /\ []C6_Events

C6_Witness ==
  /\ pc = "done"
  /\ Len(events) = 5
  /\ Len(residualStack) = 3

\* ------------------------------------- vocabulary for the extractor claims
Compressed == compressDuplicates(raw)

\* The interior samples of a compressed list at which the direction reverses.
InteriorReversalsOf(comp) ==
  {comp[j] : j \in {m \in 2..(Len(comp) - 1) :
      sign(comp[m].x - comp[m - 1].x) # sign(comp[m + 1].x - comp[m].x)}}

InteriorReversals == InteriorReversalsOf(Compressed)

\* The returned points strictly between the first and last compressed sample.
ReturnedInteriorOf(comp) ==
  {p \in Range(turningPoints) : comp[1].i < p.i /\ p.i < comp[Len(comp)].i}

\* p carries the index of the first sample of its run of equal values.
FirstOfRun(p) ==
  /\ p.i + 1 \in DOMAIN raw
  /\ raw[p.i + 1] = p.x
  /\ p.i > 0 => raw[p.i] # p.x

\* C7 (as stated): with at least two compressed samples, the returned points
\* strictly between the first and last compressed samples are exactly the
\* interior samples whose sign(cur - prev) differs from sign(next - cur),
\* each with the index of the first sample of its run, for both values of
\* useEndpoints.
C7_InteriorAreReversals ==
  LET comp == compressDuplicates(raw) IN
  (Extracted /\ Len(comp) >= 2) =>
    /\ ReturnedInteriorOf(comp) = InteriorReversalsOf(comp)
    /\ \A p \in Range(turningPoints) : FirstOfRun(p)

\* C7 (amended): the same, for useEndpoints = true and for useEndpoints =
\* false when at least one interior reversal exists; with useEndpoints =
\* false and no interior reversal the single returned point is the
\* compressed sample at position floor(n/2), which is an interior sample
\* whenever n >= 3.
C7_InteriorAreReversalsOrFallback ==
  LET comp == compressDuplicates(raw)
      reversals == InteriorReversalsOf(comp)
  IN (Extracted /\ Len(comp) >= 2) =>
       /\ (useEndpointsAsReversals \/ reversals # {}) =>
            ReturnedInteriorOf(comp) = reversals
       /\ (~useEndpointsAsReversals /\ reversals = {}) =>
            turningPoints = <<comp[(Len(comp) \div 2) + 1]>>
       /\ \A p \in Range(turningPoints) : FirstOfRun(p)

C7_Witness ==
  /\ Extracted
  /\ ~useEndpointsAsReversals
  /\ Len(raw) > Len(Compressed)
  /\ Cardinality(InteriorReversals) >= 2
  /\ \E p \in InteriorReversals : p.i > 0 /\ raw[p.i + 2] = p.x

\* C8: with useEndpoints = true and at least two compressed samples the
\* first returned point is the first compressed sample and the last returned
\* point is the last compressed sample, each exactly once; for
\* raw = [-1,2,-3,5,-2] the result has indices [0..4] and the raw values.
C8_Endpoints ==
  LET comp == compressDuplicates(raw)
      firstC == comp[1]
      lastC == comp[Len(comp)]
  IN /\ (Extracted /\ useEndpointsAsReversals /\ Len(comp) >= 2) =>
          /\ Len(turningPoints) >= 2
          /\ turningPoints[1] = firstC
          /\ turningPoints[Len(turningPoints)] = lastC
          /\ Cardinality({j \in DOMAIN turningPoints : turningPoints[j].i = firstC.i}) = 1
          /\ Cardinality({j \in DOMAIN turningPoints : turningPoints[j].i = lastC.i}) = 1
     /\ (Extracted /\ useEndpointsAsReversals /\ raw = ExampleExtremum) =>
          turningPoints = <<[i |-> 0, x |-> -1], [i |-> 1, x |-> 2], [i |-> 2, x |-> -3],
                            [i |-> 3, x |-> 5], [i |-> 4, x |-> -2]>>

C8_Witness ==
  /\ Extracted
  /\ useEndpointsAsReversals
  /\ Len(Compressed) >= 4
  /\ Len(raw) > Len(Compressed)
  /\ InteriorReversals # {}
  /\ Len(turningPoints) < Len(Compressed)

\* C9: the returned turning points are in strictly increasing order of
\* original index.
C9_StrictlyIncreasingIndex ==
  Extracted =>
    \A j \in 1..(Len(turningPoints) - 1) : turningPoints[j].i < turningPoints[j + 1].i

C9_Witness ==
  /\ Extracted
  /\ Len(turningPoints) >= 3
  /\ Len(raw) > Len(Compressed)
  /\ \E j \in 1..(Len(turningPoints) - 1) : turningPoints[j + 1].i > turningPoints[j].i + 1

\* C10: for non-empty raw at least one turning point is returned and no
\* read falls outside an array; for empty raw the result is empty.
C10_NonEmptyResult ==
  LET comp == compressDuplicates(raw) IN
  Extracted =>
    /\ raw # <<>> => Len(turningPoints) >= 1
    /\ raw = <<>> => turningPoints = <<>>
    /\ \A p \in Range(turningPoints) : p.i + 1 \in DOMAIN raw
    /\ Len(raw) >= 2 =>
         /\ Len(comp) >= 1
         /\ midIndex(comp) \in DOMAIN comp

\* The fallback case: no endpoints and no interior reversal.
C10_Witness ==
  /\ Extracted
  /\ ~useEndpointsAsReversals
  /\ Len(Compressed) >= 3
  /\ InteriorReversals = {}
  /\ Len(turningPoints) = 1

\* ------------------------------------------------ claims C11 to C17
\* C11: with useEndpoints = false and a compressed list of n >= 2 samples
\* without interior reversal, exactly one turning point is returned: the
\* compressed sample at 0-based position floor(n/2).
C11_MonotonicFallback ==
  LET comp == compressDuplicates(raw)
      n == Len(comp)
  IN (Extracted /\ ~useEndpointsAsReversals /\ n >= 2
        /\ InteriorReversalsOf(comp) = {}) =>
       /\ Len(turningPoints) = 1
       /\ \E j \in 1..n : /\ 2 * (j - 1) <= n
                          /\ n < 2 * j
                          /\ turningPoints[1] = comp[j]
       /\ raw[turningPoints[1].i + 1] = turningPoints[1].x

C11_Witness ==
  /\ Extracted
  /\ ~useEndpointsAsReversals
  /\ Len(Compressed) = 4
  /\ Len(raw) > 4
  /\ InteriorReversals = {}
  /\ turningPoints = <<Compressed[3]>>
  /\ turningPoints[1].i = 3

\* C12: a raw input of length 1 returns that sample with index 0; a raw
\* input of length >= 2 whose samples are all equal returns exactly one
\* turning point, index 0 and that value, whatever useEndpoints is.
C12_Degenerate ==
  Extracted =>
    /\ Len(raw) = 1 => turningPoints = <<[i |-> 0, x |-> raw[1]]>>
    /\ (Len(raw) >= 2 /\ \A j \in DOMAIN raw : raw[j] = raw[1]) =>
         turningPoints = <<[i |-> 0, x |-> raw[1]]>>

C12_Witness ==
  /\ Extracted
  /\ Len(raw) >= 3
  /\ \A j \in DOMAIN raw : raw[j] = raw[1]
  /\ Len(turningPoints) = 1

\* The cycles appended after the closed cycles of the steps.
ResidualPart == SubSeq(cycles, Len(ConcatClosed(events)) + 1, Len(cycles))

HalfCycleOf(b, c) ==
  [range |-> Abs(b.x - c.x), mean2 |-> b.x + c.x, count2 |-> 1, b |-> b, c |-> c]

\* C13: under "half" a final stack of length n gives exactly n-1 half
\* cycles (none when n <= 1), the i-th with b = stack[i], c = stack[i+1],
\* range |b.x - c.x|, mean (b.x + c.x)/2 and count 0.5, in stack order.
C13_HalfResidual ==
  (pc = "done" /\ residue = "half") =>
    LET n == Len(residualStack) IN
      /\ Len(ResidualPart) = IF n <= 1 THEN 0 ELSE n - 1
      /\ \A j \in 1..(n - 1) :
           ResidualPart[j] = HalfCycleOf(residualStack[j], residualStack[j + 1])

C13_Witness ==
  /\ pc = "done"
  /\ residue = "half"
  /\ Len(residualStack) >= 4
  /\ Len(cycles) > Len(ResidualPart)

\* C14: under "close" the residual cycles are the "half" cycles followed by
\* one extra half cycle with b = last and c = first stack element when the
\* final stack has at least 2 elements, and none when it has 0 or 1; for the
\* final stack [0, 10] these are two half cycles of range 10 and mean 5.
C14_CloseResidual ==
  (pc = "done" /\ residue = "close") =>
    LET n == Len(residualStack) IN
      /\ n <= 1 => ResidualPart = <<>>
      /\ n >= 2 =>
           /\ Len(ResidualPart) = n
           /\ \A j \in 1..(n - 1) :
                ResidualPart[j] = HalfCycleOf(residualStack[j], residualStack[j + 1])
           /\ ResidualPart[n] = HalfCycleOf(residualStack[n], residualStack[1])
      /\ ValuesOf(residualStack) = <<0, 10>> =>
           /\ Len(ResidualPart) = 2
           /\ \A j \in 1..2 : /\ ResidualPart[j].range = 10
                              /\ ResidualPart[j].mean2 = 2 * 5
                              /\ ResidualPart[j].count2 = 1

C14_Witness ==
  /\ pc = "done"
  /\ residue = "close"
  /\ Len(residualStack) = 3
  /\ Len(cycles) = 4

\* C15: the residual policy is applied once, after the last turning point
\* and never inside a step: closed cycles of events have count 1.0, residual
\* cycles count 0.5, all count-1.0 cycles precede all count-0.5 cycles, and
\* sum(count) = closed cycles + 0.5 * residual cycles.
C15_StepAddsNoResidual ==
  (cycles' # cycles /\ \E j \in DOMAIN cycles' : cycles'[j].count2 = 1) =>
    /\ pc = "for"
    /\ pc' = "done"
    /\ Len(events) = Len(turningPoints)
    /\ \A j \in DOMAIN cycles : cycles[j].count2 = 2

C15_Counts ==
  /\ \A j \in DOMAIN events :
       \A m \in DOMAIN events[j].closed : events[j].closed[m].count2 = 2
  /\ pc # "done" => \A j \in DOMAIN cycles : cycles[j].count2 = 2
  /\ pc = "done" =>
       /\ \A j \in DOMAIN ResidualPart : ResidualPart[j].count2 = 1
       /\ \A i, j \in DOMAIN cycles :
            (cycles[i].count2 = 2 /\ cycles[j].count2 = 1) => i < j
       /\ SumCount2(cycles) = 2 * Len(ConcatClosed(events)) + Len(ResidualPart)

C15_ResidualOnceAtEnd == [][C15_StepAddsNoResidual]_vars /\ []C15_Counts

C15_Witness ==
  /\ pc = "done"
  /\ Len(ResidualPart) >= 2
  /\ Len(ConcatClosed(events)) >= 2

\* The last quadruple examined in the step of event e: the top four of
\* stackAfter when the loop stopped at a failing quadruple, otherwise the
\* quadruple of the step's last closure.
LastExamined(e) ==
  LET after == e.stackAfter
      n == Len(after)
      m == Len(e.closed)
  IN IF n >= 4 THEN <<after[n - 3], after[n - 2], after[n - 1], after[n]>>
     ELSE <<after[n - 1], e.closed[m].b, e.closed[m].c, after[n]>>

\* C16 (as stated): in every step in which the stack holds at least four
\* points after the push, the event's windowABCD is present and equals the
\* last quadruple examined in that step, whether or not a cycle closed.
C16_WindowWheneverExamined ==
  \A j \in DOMAIN events :
    Len(events[j].stackBefore) + 1 >= 4 =>
      /\ events[j].windowABCD # <<>>
      /\ events[j].windowABCD = LastExamined(events[j])

\* C16 (amended): in every step whose closing loop ends at a quadruple that
\* fails the closing condition (the stack still holds at least four points
\* when the loop ends), the event's windowABCD is present and equals that
\* last quadruple examined, whether or not a cycle closed earlier in the
\* step; when the loop ends with fewer than four points, windowABCD is
\* absent even if quadruples were examined and closed.
C16_StepWindow ==
  (pc = "while" /\ pc' = "for") =>
    LET e == events'[Len(events')]
        n == Len(s)
    IN /\ Len(events') = Len(events) + 1
       /\ e.closed = closed
       /\ n >= 4 => e.windowABCD = <<s[n - 3], s[n - 2], s[n - 1], s[n]>>
       /\ n < 4 => e.windowABCD = <<>>

C16_WindowAtFailingQuadruple == [][C16_StepWindow]_vars

\* A step that closed a cycle and still recorded a window.
C16_Witness ==
  \E j \in DOMAIN events :
    /\ events[j].closed # <<>>
    /\ events[j].windowABCD # <<>>
    /\ Len(events[j].stackAfter) >= 5

\* C17: every iteration of the closing loop either closes a cycle and
\* shrinks the stack by exactly 2 or exits, a step that starts the loop with
\* n >= 2 points closes at most floor((n-2)/2) cycles, and rainflowCount
\* terminates.
C17_Iteration ==
  pc = "while" =>
    \/ /\ pc' = "while"
       /\ Len(s') = Len(s) - 2
       /\ Len(closed') = Len(closed) + 1
       /\ k' = k
    \/ /\ pc' = "for"
       /\ s' = s
       /\ closed' = closed
       /\ k' = k + 1

C17_ClosureBound ==
  /\ \A j \in DOMAIN events :
       LET n == Len(events[j].stackBefore) + 1 IN
         /\ n >= 2 => Len(events[j].closed) <= (n - 2) \div 2
         /\ n < 2 => events[j].closed = <<>>
  /\ pc = "while" =>
       /\ Len(before) + 1 >= 2 => Len(closed) <= (Len(before) + 1 - 2) \div 2
       /\ Len(s) = Len(before) + 1 - 2 * Len(closed)
  /\ k <= Len(turningPoints)

\* An upper bound on the number of steps left before rainflowCount returns:
\* one push and one return per remaining turning point, one closure per two
\* points that are or will be on the stack, and the final step.
C17_StepsLeft ==
  LET T == Len(turningPoints) IN
  CASE pc = "call" -> 2 + 3 * Len(raw)
    [] pc = "for" -> 1 + 2 * (T - k) + (Len(stack) + T - k)
    [] pc = "while" -> 1 + 2 * (T - k - 1) + 1 + (Len(s) + T - k - 1)
    [] pc = "done" -> 0

\* The steps left are never negative and, past the extraction (which has no
\* guard), some step of the loops is possible until the function returns.
C17_Running ==
  /\ C17_StepsLeft >= 0
  /\ pc = "for" => ENABLED (Push \/ Finish)
  /\ pc = "while" => ENABLED (CloseCycle \/ ReturnWindow \/ ReturnShort)

C17_Termination ==
  /\ [][C17_Iteration]_vars
  /\ [][C17_StepsLeft' < C17_StepsLeft]_vars
  /\ []C17_ClosureBound
  /\ []C17_Running

\* A step that started with 6 points and closed floor((6-2)/2) = 2 cycles.
C17_Witness ==
  /\ pc = "done"
  /\ \E j \in DOMAIN events :
       /\ Len(events[j].stackBefore) = 5
       /\ Len(events[j].closed) = 2

\* ------------------------------------------- vocabulary for buildMatrix
MatrixBuilt == pc = "matrixDone"

SetMin(S) == CHOOSE m \in S : \A x \in S : m <= x

SetMax(S) == CHOOSE m \in S : \A x \in S : x <= m

\* The values of the two axes, in halves.
RangeValues == {2 * cycles[j].range : j \in DOMAIN cycles}

MeanValues == {cycles[j].mean2 : j \in DOMAIN cycles}

\* The domain of an axis, in halves: [0, 1] without values, [min, min + 1]
\* when all values are equal, [min, max] otherwise.
AxisLow(S) == IF S = {} THEN 0 ELSE SetMin(S)

AxisHigh(S) ==
  IF S = {} THEN 2 ELSE IF SetMax(S) = SetMin(S) THEN SetMin(S) + 2 ELSE SetMax(S)

\* The bins i of an edge list whose half-open interval [e[i], e[i+1])
\* contains v.
IntervalsOf(edges, v) ==
  LET B == Len(edges) - 1 IN
    {i \in 0..(B - 1) : edges[i + 1] <= v * B /\ v * B < edges[i + 2]}

\* v is placed in bin i of the edge list as C18 states it.
PlacedAt(edges, v, i) ==
  LET B == Len(edges) - 1 IN
    IF v * B <= edges[1] THEN i = 0
    ELSE IF v * B >= edges[B + 1] THEN i = B - 1
    ELSE IntervalsOf(edges, v) = {i}

EdgesOf(edges, lo, hi, B) ==
  /\ Len(edges) = B + 1
  /\ \A n \in 0..B : edges[n + 1] = lo * B + (hi - lo) * n
  /\ edges[1] = lo * B
  /\ edges[B + 1] = hi * B
  /\ \A n \in 1..B : edges[n] < edges[n + 1]

\* C19: for bin counts >= 1, rangeEdges has binsRange+1 and meanEdges
\* binsMean+1 entries, the k-th being min + (max - min) * k / bins; the first
\* edge is the axis minimum, the last the axis maximum, and the edges are
\* strictly increasing.
C19_Edges ==
  MatrixBuilt =>
    /\ EdgesOf(matrix.rangeEdges, AxisLow(RangeValues), AxisHigh(RangeValues), binsRange)
    /\ EdgesOf(matrix.meanEdges, AxisLow(MeanValues), AxisHigh(MeanValues), binsMean)

C19_Witness ==
  /\ MatrixBuilt
  /\ binsRange = 2
  /\ binsMean = 4
  /\ Cardinality(RangeValues) = 3
  /\ Cardinality(MeanValues) = 2

AllZeroFrom(counts, firstRow, firstCol) ==
  \A i \in firstRow..(binsRange - 1) : \A j \in firstCol..(binsMean - 1) :
    counts[i][j] = 0

\* C20: without cycles both axes use the domain [0, 1] (for 4 bins the
\* edges are 0, 0.25, 0.5, 0.75, 1 and counts is a 4x4 zero matrix); when
\* all ranges are equal the range axis is [rMin, rMin + 1], likewise the mean
\* axis when all means are equal, and all cycles are in bin 0 of that axis.
C20_DegenerateDomains ==
  MatrixBuilt =>
    /\ cycles = <<>> =>
         /\ matrix.rangeEdges = [n \in 1..(binsRange + 1) |-> 2 * (n - 1)]
         /\ matrix.meanEdges = [n \in 1..(binsMean + 1) |-> 2 * (n - 1)]
         /\ DOMAIN matrix.counts = 0..(binsRange - 1)
         /\ \A i \in 0..(binsRange - 1) : DOMAIN matrix.counts[i] = 0..(binsMean - 1)
         /\ AllZeroFrom(matrix.counts, 0, 0)
    /\ (cycles = <<>> /\ binsRange = 4 /\ binsMean = 4) =>
         /\ matrix.rangeEdges = <<0, 2, 4, 6, 8>>
         /\ matrix.meanEdges = <<0, 2, 4, 6, 8>>
    /\ Cardinality(RangeValues) = 1 =>
         /\ matrix.rangeEdges[1] = SetMin(RangeValues) * binsRange
         /\ matrix.rangeEdges[binsRange + 1] = (SetMin(RangeValues) + 2) * binsRange
         /\ AllZeroFrom(matrix.counts, 1, 0)
    /\ Cardinality(MeanValues) = 1 =>
         /\ matrix.meanEdges[1] = SetMin(MeanValues) * binsMean
         /\ matrix.meanEdges[binsMean + 1] = (SetMin(MeanValues) + 2) * binsMean
         /\ AllZeroFrom(matrix.counts, 0, 1)

\* Two cycles of equal range and different means, on more than one range bin.
C20_Witness ==
  /\ MatrixBuilt
  /\ Len(cycles) = 2
  /\ Cardinality(RangeValues) = 1
  /\ Cardinality(MeanValues) = 2
  /\ binsRange = 2
  /\ binsMean = 2
  /\ matrix.counts[0][0] > 0
  /\ matrix.counts[0][1] > 0

\* ------------------------------------------------ claims C21 to C30
\* The cycles of the list whose range is placed in bin i and whose mean is
\* placed in bin m.
CyclesInCell(i, m) ==
  LET InCell(c) == /\ PlacedAt(matrix.rangeEdges, 2 * c.range, i)
                   /\ PlacedAt(matrix.meanEdges, c.mean2, m)
  IN SelectSeq(cycles, InCell)

RECURSIVE SumOver(_, _)
SumOver(f, S) ==
  IF S = {} THEN 0
  ELSE LET x == CHOOSE y \in S : TRUE IN f[x] + SumOver(f, S \ {x})

\* C21: for bin counts >= 1 and any cycle list buildMatrix raises no error
\* (counts is a binsRange x binsMean matrix and no cycle is placed outside
\* it) and adds every cycle to exactly one cell: counts[i][j] is the sum of
\* count over the cycles whose range bin is i and whose mean bin is j, so the
\* sum of all cells is the sum of count over all cycles.
C21_CellSums ==
  MatrixBuilt =>
    LET rows == 0..(binsRange - 1)
        cols == 0..(binsMean - 1)
        rowSum == [i \in rows |-> SumOver(matrix.counts[i], cols)]
    IN /\ DOMAIN matrix.counts = rows
       /\ \A i \in rows : DOMAIN matrix.counts[i] = cols
       /\ \A j \in DOMAIN cycles :
            /\ findBin(matrix.rangeEdges, 2 * cycles[j].range) \in rows
            /\ findBin(matrix.meanEdges, cycles[j].mean2) \in cols
            /\ Cardinality({cell \in rows \X cols :
                  /\ PlacedAt(matrix.rangeEdges, 2 * cycles[j].range, cell[1])
                  /\ PlacedAt(matrix.meanEdges, cycles[j].mean2, cell[2])}) = 1
       /\ \A i \in rows : \A m \in cols :
            matrix.counts[i][m] = SumCount2(CyclesInCell(i, m))
       /\ SumOver(rowSum, rows) = SumCount2(cycles)

\* Two different cycles added to the same cell of a matrix with other cells.
C21_Witness ==
  /\ MatrixBuilt
  /\ Len(cycles) = 2
  /\ cycles[1] # cycles[2]
  /\ binsRange = 2
  /\ binsMean = 2
  /\ \E i \in 0..1 : \E m \in 0..1 : matrix.counts[i][m] = SumCount2(cycles)

\* The rearrangements of a list: the list read through each bijection of its
\* index set.
PermutationsOf(list) ==
  LET n == Len(list)
      bijections == {f \in [1..n -> 1..n] : \A i, j \in 1..n : f[i] = f[j] => i = j}
  IN {[j \in 1..n |-> list[f[j]]] : f \in bijections}

\* C22: for fixed bin counts, buildMatrix of any permutation of the cycle
\* list returns the same rangeEdges, the same meanEdges and the same counts.
C22_OrderIndependent ==
  MatrixBuilt =>
    \A permuted \in PermutationsOf(cycles) :
      LET other == buildMatrix(permuted, binsRange, binsMean) IN
        /\ other.rangeEdges = matrix.rangeEdges
        /\ other.meanEdges = matrix.meanEdges
        /\ other.counts = matrix.counts

\* Three different cycles in three different cells.
C22_Witness ==
  /\ MatrixBuilt
  /\ Len(cycles) = 3
  /\ Cardinality(PermutationsOf(cycles)) = 6
  /\ Cardinality({cell \in (0..(binsRange - 1)) \X (0..(binsMean - 1)) :
        matrix.counts[cell[1]][cell[2]] > 0}) = 3

\* The number of closed cycles of a list that have p as their b or c point,
\* a cycle with b = c = p counting twice.
EndpointUses(closedList, p) ==
  Cardinality({j \in DOMAIN closedList : closedList[j].b = p})
    + Cardinality({j \in DOMAIN closedList : closedList[j].c = p})

\* C24: after every step k the stack length plus twice the number of cycles
\* closed in steps 0..k is k+1; at the end |residualStack| plus twice the
\* number of count-1.0 cycles is turningPoints.length, and every turning
\* point is either on the residual stack or an endpoint (b or c) of exactly
\* one closed cycle, never both and never of two closed cycles.
C24_PointConservation ==
  /\ \A j \in DOMAIN events :
       Len(events[j].stackAfter) + 2 * Len(ConcatClosed(SubSeq(events, 1, j))) = j
  /\ pc = "for" => Len(stack) + 2 * Len(cycles) = k
  /\ pc = "done" =>
       LET closedAll == ConcatClosed(events)
           full == {j \in DOMAIN cycles : cycles[j].count2 = 2}
       IN /\ Len(residualStack) + 2 * Cardinality(full) = Len(turningPoints)
          /\ \A t \in DOMAIN turningPoints :
               LET p == turningPoints[t]
                   onStack == \E n \in DOMAIN residualStack : residualStack[n] = p
               IN /\ onStack => EndpointUses(closedAll, p) = 0
                  /\ ~onStack => EndpointUses(closedAll, p) = 1
          /\ \A n \in DOMAIN residualStack :
               Cardinality({m \in DOMAIN residualStack :
                              residualStack[m] = residualStack[n]}) = 1

\* A run of six turning points that closed two cycles and left two points.
C24_Witness ==
  /\ pc = "done"
  /\ Len(ConcatClosed(events)) = 2
  /\ Len(residualStack) = 2
  /\ Len(turningPoints) = 6

\* No four consecutive points of a stack, at any depth, satisfy the closing
\* condition |B-C| <= |A-B| and |B-C| <= |C-D|.
NoClosableQuadruple(st) ==
  \A n \in 1..(Len(st) - 3) :
    LET rAB == Abs(st[n].x - st[n + 1].x)
        rBC == Abs(st[n + 1].x - st[n + 2].x)
        rCD == Abs(st[n + 2].x - st[n + 3].x)
    IN ~(rBC <= rAB /\ rBC <= rCD)

\* C25: in the stackAfter of every step, and therefore in residualStack, no
\* four consecutive stack elements at any depth, not only the top four,
\* satisfy the closing condition.
C25_NoClosableQuadrupleLeft ==
  /\ \A j \in DOMAIN events : NoClosableQuadruple(events[j].stackAfter)
  /\ pc = "for" => NoClosableQuadruple(stack)
  /\ pc = "done" => NoClosableQuadruple(residualStack)

\* A residual stack with a quadruple below the top four, after a closure.
C25_Witness ==
  /\ pc = "done"
  /\ Len(residualStack) >= 5
  /\ ConcatClosed(events) # <<>>

\* st is a subsequence of the turning points, in strictly increasing order
\* of index.
IncreasingSubsequence(st) ==
  /\ \A n \in DOMAIN st : \E m \in DOMAIN turningPoints : turningPoints[m] = st[n]
  /\ \A n \in 1..(Len(st) - 1) : st[n].i < st[n + 1].i

\* C26: in every step the bottom of stackAfter is turningPoints[0] and its
\* top is the point appended in that step, the stack is a subsequence of the
\* turning points in strictly increasing index order, and a step that closes
\* cycles leaves at least 2 points on the stack.
C26_BottomAndTopKept ==
  /\ \A j \in DOMAIN events :
       LET e == events[j]
           after == e.stackAfter
       IN /\ after # <<>>
          /\ after[1] = turningPoints[1]
          /\ after[Len(after)] = e.appended
          /\ e.appended = turningPoints[j]
          /\ IncreasingSubsequence(after)
          /\ e.closed # <<>> => Len(after) >= 2
  /\ pc = "while" =>
       /\ s # <<>>
       /\ s[1] = turningPoints[1]
       /\ s[Len(s)] = appended
       /\ IncreasingSubsequence(s)
       /\ closed # <<>> => Len(s) >= 2

\* A step that drained a stack of six points down to the two endpoints.
C26_Witness ==
  \E j \in DOMAIN events :
    /\ j >= 6
    /\ events[j].closed # <<>>
    /\ events[j].stackAfter = <<turningPoints[1], turningPoints[j]>>

\* C27: for every step event, windowABCD is present if and only if
\* stackAfter has at least 4 elements, and when present it is the top four
\* elements of stackAfter in bottom-to-top order, with D the appended point
\* and A, B, C, D failing the closing condition.
C27_WindowIffFourLeft ==
  \A j \in DOMAIN events :
    LET e == events[j]
        after == e.stackAfter
        n == Len(after)
        w == e.windowABCD
    IN /\ (w # <<>>) <=> (n >= 4)
       /\ w # <<>> =>
            /\ Len(w) = 4
            /\ \A m \in 1..4 : w[m] = after[n - 4 + m]
            /\ w[4] = e.appended
            /\ ~(/\ Abs(w[2].x - w[3].x) <= Abs(w[1].x - w[2].x)
                 /\ Abs(w[2].x - w[3].x) <= Abs(w[3].x - w[4].x))

\* A run with a step that recorded a window and a later step that closed a
\* cycle, fell below four points and recorded none.
C27_Witness ==
  \E j, m \in DOMAIN events :
    /\ j < m
    /\ events[j].windowABCD # <<>>
    /\ events[m].closed # <<>>
    /\ events[m].windowABCD = <<>>

\* C28: the three-valued sign of a difference between adjacent compressed
\* samples is never 0, and the returned turning points strictly alternate:
\* consecutive turning points have different values and the sign of the
\* difference between successive turning points flips at every point, for
\* both values of useEndpoints.
C28_StrictAlternation ==
  Extracted =>
    LET comp == compressDuplicates(raw)
        tp == turningPoints
    IN /\ \A j \in 1..(Len(comp) - 1) : sign(comp[j + 1].x - comp[j].x) # 0
       /\ \A j \in 1..(Len(tp) - 1) : tp[j].x # tp[j + 1].x
       /\ \A j \in 2..(Len(tp) - 1) :
            /\ sign(tp[j].x - tp[j - 1].x) # 0
            /\ sign(tp[j].x - tp[j - 1].x) = 0 - sign(tp[j + 1].x - tp[j].x)

\* Four alternating turning points from an input with a flat run.
C28_Witness ==
  /\ Extracted
  /\ Len(turningPoints) >= 4
  /\ \E j \in 1..(Len(raw) - 1) : raw[j] = raw[j + 1]

\* Bin counts other than the default: the two limits of the application's
\* inputs, in both orders.
BinPairs == {<<4, 80>>, <<80, 4>>}

\* C29: for a fixed raw input and useEndpointsAsReversals, the
\* turningPoints, events and residualStack returned by rainflowCount are the
\* same for all three residue modes and all values of binsRange and
\* binsMean; only the suffix of cycles after the closed cycles depends on
\* the residue mode, and under "discard" that suffix is empty.
C29_ResidueAndBinsIndependence ==
  pc = "done" =>
    LET closedAll == ConcatClosed(events) IN
      /\ residue = "discard" => cycles = closedAll
      /\ \A mode \in ResidueHandling : \A bins \in BinPairs :
           LET other == rainflowCount(raw, Options(useEndpointsAsReversals, mode,
                                                   bins[1], bins[2]))
           IN /\ other.turningPoints = turningPoints
              /\ other.events = events
              /\ other.residualStack = residualStack
              /\ SubSeq(other.cycles, 1, Len(closedAll)) = closedAll
              /\ Len(other.cycles) >= Len(closedAll)
              /\ mode = "discard" => other.cycles = closedAll
              /\ mode = residue => other.cycles = cycles

\* A run under "discard" that closed a cycle and left a residual stack whose
\* half cycles the other modes would add.
C29_Witness ==
  /\ pc = "done"
  /\ residue = "discard"
  /\ ConcatClosed(events) # <<>>
  /\ Len(residualStack) >= 2
  /\ residualCycles(residualStack, "close") # residualCycles(residualStack, "half")

\* ------------------------------------------- claims about the playback
\* A render of the application is complete: the analysis has returned.
Rendered == pc \in {"idle", "commit", "done"}

\* C23: the incremental cycle list shown by the UI (cyclesUpToCursor) is,
\* for a cursor c below maxCursor, the concatenation of events[0..c].closed,
\* and for a cursor at or above maxCursor the complete cycles list of the
\* analysis (all closed cycles followed by the residual cycles), so residual
\* cycles appear only at the last step; it is empty when there are no events.
C23_IncrementalList ==
  Rendered =>
    /\ cursor < maxCursor =>
         /\ cyclesUpToCursor = ConcatClosed(SubSeq(events, 1, cursor + 1))
         /\ \A j \in DOMAIN cyclesUpToCursor : cyclesUpToCursor[j].count2 = 2
    /\ cursor >= maxCursor =>
         /\ cyclesUpToCursor = cycles
         /\ cycles = ConcatClosed(events) \o residualCycles(residualStack, residue)
    /\ cyclesUpToCursorOf(<<>>, <<>>, cursor, 0) = <<>>

\* A committed render whose cursor is above maxCursor, with closed and
\* residual cycles to show.
C23_Witness ==
  /\ Committed
  /\ cursor > maxCursor
  /\ ConcatClosed(events) # <<>>
  /\ Len(cycles) > Len(ConcatClosed(events))

\* C30 (as stated): in every state of the playback UI the cursor satisfies
\* 0 <= cursor <= maxCursor, where maxCursor = max(0, events.length - 1) of
\* the current analysis.
C30_CursorAlwaysInRange ==
  Rendered => (0 <= cursor /\ cursor <= maxCursor)

\* A timer tick at cursor = maxCursor leaves the cursor unchanged.
C30_TickAtEnd ==
  (Tick /\ cursor = maxCursor) => cursor' = cursor

\* A change of raw or of an option leads, once the analysis has returned
\* and the effects of the render have run, to cursor 0 and playing false.
C30_ChangeResets ==
  /\ (raw' # raw \/ useEndpointsAsReversals' # useEndpointsAsReversals
        \/ residue' # residue \/ binsRange' # binsRange \/ binsMean' # binsMean) =>
       (inputsChanged' /\ pc' = "call")
  /\ (pc # "idle" /\ pc' # "idle") => inputsChanged' = inputsChanged
  /\ (inputsChanged /\ pc' = "idle") => (cursor' = 0 /\ ~playing')

\* C30 (amended): in every state in which the effects of the last render
\* have run, reached by any interleaving of Back, Step, Play/Pause, timer
\* ticks, Reset and changes of raw input or options, 0 <= cursor <=
\* maxCursor; an interval exists exactly when playing and holds the current
\* maxCursor, and a tick at cursor = maxCursor leaves the cursor unchanged;
\* every change of raw or of an option sets cursor to 0 and playing to false
\* in the effect that follows the render, and in the render before that
\* effect the cursor is still the old one, never negative, and can exceed
\* the new maxCursor.
C30_CursorInRangeAfterEffects ==
  /\ [](cursor >= 0)
  /\ [](pc = "idle" =>
          /\ cursor <= maxCursor
          /\ ~inputsChanged
          /\ timer = IF playing THEN maxCursor ELSE NoTimer)
  /\ [][C30_TickAtEnd]_vars
  /\ [][C30_ChangeResets]_vars

\* Playing has reached the end of an analysis other than the first.
C30_Witness ==
  /\ pc = "idle"
  /\ raw # demoRaw
  /\ playing
  /\ timer = maxCursor
  /\ cursor = maxCursor
  /\ cursor >= 3

====
